---- MODULE Spec2Model ----
(***************************************************************************)
(* Billing service (BillingService): the menu client with its retry loop,  *)
(* the delivery ledger (guestOrders), the bill book (bills) and payment    *)
(* settlement.  Identifiers arrive from JSON bodies and URL parameters, so *)
(* a guest or order id is a JavaScript number or a JavaScript string; the  *)
(* model keeps both representations and models === and unary + on them.    *)
(***************************************************************************)
EXTENDS Integers, Sequences, FiniteSets, TLC

VARIABLES
    menu,           \* this.menu: <<>> while undefined, <<m>> once assigned
    retryCounter,   \* this.retryCounter
    fibonacciSeq,   \* this.fibonacciSeq
    pc,             \* position of the getMenu / handleGetMenuErrors chain
    retryIn,        \* the delay currently awaited, in ms (0 when none)
    pendingFetches, \* getMenu fetches started and not yet settled
    available,      \* environment: does the pricing source answer right now
    failures,       \* history: failed fetches since startup (saturating)
    shortWaits,     \* history: short-retry waits since startup or last cooldown
    cooldowns,      \* history: cooldowns taken so far (saturating)
    bills,          \* this.bills
    guestOrders,    \* this.guestOrders
    billIdCounter,  \* this.billIdCounter
    paidIds,        \* history: ids of the bills closed by registerPayment
    result,         \* the last call: operation, argument, outcome, return value
    orderNumber,    \* order.ts: the module variable orderNumber
    orderCalls      \* the processOrder calls: position, messages sent, return

vars == <<menu, retryCounter, fibonacciSeq, pc, retryIn, pendingFetches,
          available, failures, shortWaits, cooldowns, bills, guestOrders,
          billIdCounter, paidIds, result, orderNumber, orderCalls>>

menuVars == <<menu, retryCounter, fibonacciSeq, pc, retryIn, pendingFetches,
              available, failures, shortWaits, cooldowns>>

billingVars == <<bills, guestOrders, billIdCounter, paidIds, result>>

orderVars == <<orderNumber, orderCalls>>

----------------------------------------------------------------------------
(* Bounds                                                                  *)

MaxFailures == 18      \* the failure history saturates here
MaxCooldowns == 2      \* the cooldown history saturates here
MaxLedgerItems == 2    \* food and drink ids held by the whole ledger
MaxBillId == 2         \* bill ids handed out
MaxCalls == 2          \* processOrder calls made

----------------------------------------------------------------------------
(* Identifiers: a JavaScript number or a string of decimal digits          *)

Num(n) == [t |-> "number", n |-> n, s |-> <<>>]
Str(digits) == [t |-> "string", n |-> 0, s |-> digits]

\* a === b on two identifiers: same type and same value
StrictEq(a, b) == a.t = b.t /\ a.n = b.n /\ a.s = b.s

RECURSIVE ParseDigits(_)
ParseDigits(digits) ==
    IF digits = <<>> THEN 0
    ELSE 10 * ParseDigits(SubSeq(digits, 1, Len(digits) - 1)) + digits[Len(digits)]

\* unary plus: +a
ToNumber(a) == IF a.t = "number" THEN a.n ELSE ParseDigits(a.s)

\* +a === +b
LooseEq(a, b) == ToNumber(a) = ToNumber(b)

\* Array.prototype.findIndex, 1-based; 0 stands for JavaScript's -1
FindIndex(seq, P(_)) ==
    IF \E i \in DOMAIN seq : P(seq[i])
    THEN CHOOSE i \in DOMAIN seq : P(seq[i]) /\ \A j \in 1..(i - 1) : ~P(seq[j])
    ELSE 0

\* Array.prototype.splice(index, 1) on a 1-based index
RemoveAt(seq, i) == SubSeq(seq, 1, i - 1) \o SubSeq(seq, i + 1, Len(seq))

\* Array.prototype.filter
Filter(seq, P(_)) == SelectSeq(seq, P)

\* orders.flatMap(order => order.food) and the like
FlatMap(seq, F(_)) ==
    LET flat[i \in 0..Len(seq)] ==
            IF i = 0 THEN <<>> ELSE flat[i - 1] \o F(seq[i])
    IN  flat[Len(seq)]

----------------------------------------------------------------------------
(* Menu client                                                             *)

MAX_RETRY_COUNT == 5

RECURSIVE getFibonacciSequence(_)
getFibonacciSequence(n) ==
    IF n <= 0 THEN <<>>
    ELSE IF n = 1 THEN <<1>>
    ELSE IF n = 2 THEN <<1, 1>>
    ELSE LET p == getFibonacciSequence(n - 1)
         IN  Append(p, p[n - 1] + p[n - 2])

\* the price list served by GET /prices
TheMenu ==
    [food   |-> <<[id |-> 101, price |-> 5], [id |-> 102, price |-> 7]>>,
     drinks |-> <<[id |-> 201, price |-> 3]>>]

Bump(n, max) == IF n < max THEN n + 1 ELSE n

\* the pricing source comes and goes
SourceChanges ==
    /\ pc # "loaded"
    /\ available' = ~available
    /\ UNCHANGED <<menu, retryCounter, fibonacciSeq, pc, retryIn,
                   pendingFetches, failures, shortWaits, cooldowns>>
    /\ UNCHANGED <<billingVars, orderVars>>

PcAfterSuccessRefreshes(loaded) == "delayShort"

\* getMenu returns after this.menu is assigned: the chain ends
PcAfterSuccess(loaded) == "loaded"

\* getMenu: the awaited fetch and response.json() succeed
GetMenuSucceeds ==
    /\ pc = "fetch"
    /\ available
    /\ menu' = <<TheMenu>>
    /\ pendingFetches' = pendingFetches - 1
    /\ pc' = PcAfterSuccess(menu')
    /\ UNCHANGED <<retryCounter, fibonacciSeq, retryIn, available, failures,
                   shortWaits, cooldowns>>
    /\ UNCHANGED <<billingVars, orderVars>>

FibIndexByCounter(counter) == counter

\* the index handleGetMenuErrors reads fibonacciSeq at (1-based)
FibIndex(counter) == MAX_RETRY_COUNT - counter + 1

\* getMenu: the fetch throws; handleGetMenuErrors runs up to its await delay
GetMenuFails ==
    /\ pc = "fetch"
    /\ ~available
    /\ failures' = Bump(failures, MaxFailures)
    /\ pendingFetches' = pendingFetches - 1
    /\ IF retryCounter > 0
       THEN /\ retryIn' = fibonacciSeq[FibIndex(retryCounter)] * 1000
            /\ pc' = "delayShort"
            /\ shortWaits' = shortWaits + 1
            /\ UNCHANGED cooldowns
       ELSE /\ retryIn' = 60 * 1000
            /\ pc' = "delayLong"
            /\ cooldowns' = Bump(cooldowns, MaxCooldowns)
            /\ UNCHANGED shortWaits
    /\ UNCHANGED <<menu, retryCounter, fibonacciSeq, available>>
    /\ UNCHANGED <<billingVars, orderVars>>

\* the counter handleGetMenuErrors leaves behind once its delay is over
CounterAfterDelay(counter, long) ==
    (IF long THEN MAX_RETRY_COUNT ELSE counter) - 1

PcAfterDelayGivesUp(long) == IF long THEN "stopped" ELSE "fetch"

\* handleGetMenuErrors ends in return this.getMenu()
PcAfterDelay(long) == "fetch"

\* handleGetMenuErrors: the delay is over; the counter is updated and
\* getMenu is called again
DelayElapses ==
    /\ pc \in {"delayShort", "delayLong"}
    /\ retryCounter' = CounterAfterDelay(retryCounter, pc = "delayLong")
    /\ shortWaits' = IF pc = "delayLong" THEN 0 ELSE shortWaits
    /\ retryIn' = 0
    /\ pendingFetches' = pendingFetches + 1
    /\ pc' = PcAfterDelay(pc = "delayLong")
    /\ UNCHANGED <<menu, fibonacciSeq, available, failures, cooldowns>>
    /\ UNCHANGED <<billingVars, orderVars>>

NextMenu == SourceChanges \/ GetMenuSucceeds \/ GetMenuFails \/ DelayElapses

----------------------------------------------------------------------------
(* Bill book: generateBill                                                 *)

\* the guest whose id arrives as 1 and as "1"
OneGuestIds == {Num(1), Str(<<1>>)}
OrderIds == {Num(5), Str(<<5>>)}
FoodLists == {<<>>, <<101>>, <<999>>}
DrinkLists == {<<>>, <<201>>}

BillLineKeepsOld(existing, order) == existing

BillLineAccumulates(existing, order) ==
    [order |-> order.order, food |-> existing.food \o order.food,
     drinks |-> existing.drinks \o order.drinks]

\* the line addFoodOrderToBill writes over an existing bill line
BillLine(existing, order) ==
    [order |-> order.order, food |-> order.food, drinks |-> order.drinks]

\* addFoodOrderToBill: one iteration of guestDelivery.orders.forEach
AddOrder(billOrders, order) ==
    LET i == FindIndex(billOrders, LAMBDA bo : StrictEq(bo.order, order.order))
    IN  IF i > 0
        THEN [billOrders EXCEPT ![i] = BillLine(billOrders[i], order)]
        ELSE Append(billOrders,
                    [order |-> order.order, food |-> order.food,
                     drinks |-> order.drinks])

RECURSIVE addFoodOrderToBill(_, _)
addFoodOrderToBill(orders, billOrders) ==
    IF orders = <<>> THEN billOrders
    ELSE addFoodOrderToBill(Tail(orders), AddOrder(billOrders, Head(orders)))

\* this.menu.food.find(food => food.id === id): 0 when find gives undefined
MenuFind(items, id) == FindIndex(items, LAMBDA it : it.id = id)

RECURSIVE SumPrices(_, _)
SumPrices(items, ids) ==
    IF ids = <<>> THEN 0
    ELSE items[MenuFind(items, Head(ids))].price + SumPrices(items, Tail(ids))

\* calculateTotalSum reads .price of undefined, or .drinks/.food of an
\* undefined menu, and throws a TypeError
TotalSumThrows(billOrders) ==
    \E i \in DOMAIN billOrders :
        \/ /\ billOrders[i].drinks # <<>>
           /\ (menu = <<>> \/ \E k \in DOMAIN billOrders[i].drinks :
                  MenuFind(menu[1].drinks, billOrders[i].drinks[k]) = 0)
        \/ /\ billOrders[i].food # <<>>
           /\ (menu = <<>> \/ \E k \in DOMAIN billOrders[i].food :
                  MenuFind(menu[1].food, billOrders[i].food[k]) = 0)

RECURSIVE calculateTotalSum(_, _)
calculateTotalSum(billOrders, totalSum) ==
    IF billOrders = <<>> THEN totalSum
    ELSE calculateTotalSum(Tail(billOrders),
            totalSum + SumPrices(menu[1].drinks, Head(billOrders).drinks)
                     + SumPrices(menu[1].food, Head(billOrders).food))

StartSumKeepsOld(oldBill) == oldBill.totalSum

\* the totalSum generateBill starts the regenerated bill with
StartSum(oldBill) == 0

NextBillIdStuck(counter) == counter

\* the value of billIdCounter after a new bill took its id
NextBillId(counter) == counter + 1

\* the bill generateBill starts from: a copy of the open bill, or a new one
BaseBill(billIndex, guestDelivery) ==
    IF billIndex > 0
    THEN [bill |-> bills[billIndex].bill, guest |-> bills[billIndex].guest,
          orders |-> bills[billIndex].orders,
          totalSum |-> StartSum(bills[billIndex])]
    ELSE [bill |-> billIdCounter, guest |-> guestDelivery.guest,
          orders |-> <<>>, totalSum |-> 0]

GuestBillView(newBill) ==
    [bill |-> newBill.bill,
     orderedDrinks |-> FlatMap(newBill.orders, LAMBDA o : o.drinks),
     orderedFood |-> FlatMap(newBill.orders, LAMBDA o : o.food),
     totalSum |-> newBill.totalSum]

SameCall(op, arg) == result.op = op /\ result.arg = arg

generateBill(guestDelivery) ==
    LET billIndex == FindIndex(bills,
                        LAMBDA b : StrictEq(b.guest, guestDelivery.guest))
        base == BaseBill(billIndex, guestDelivery)
        newOrders == addFoodOrderToBill(guestDelivery.orders, base.orders)
        again == SameCall("generateBill", guestDelivery) /\ result.outcome = "ok"
        \* the call found an open bill whose lines differ from the argument's
        rebuilt == billIndex > 0 /\ bills[billIndex].orders # guestDelivery.orders
    IN  /\ billIndex = 0 => billIdCounter <= MaxBillId
        /\ billIdCounter' = IF billIndex > 0 THEN billIdCounter
                            ELSE NextBillId(billIdCounter)
        /\ IF TotalSumThrows(newOrders)
           THEN /\ bills' = bills
                /\ result' = [op |-> "generateBill", arg |-> guestDelivery,
                              outcome |-> "TypeError", ret |-> <<>>,
                              again |-> again, rebuilt |-> rebuilt]
           ELSE LET newBill == [base EXCEPT !.orders = newOrders,
                                   !.totalSum = calculateTotalSum(newOrders,
                                                                 base.totalSum)]
                IN  /\ bills' = IF billIndex > 0
                                THEN [bills EXCEPT ![billIndex] = newBill]
                                ELSE Append(bills, newBill)
                    /\ result' = [op |-> "generateBill", arg |-> guestDelivery,
                                  outcome |-> "ok",
                                  ret |-> GuestBillView(newBill),
                                  again |-> again, rebuilt |-> rebuilt]
        /\ UNCHANGED <<guestOrders, paidIds>>
        /\ UNCHANGED <<menuVars, orderVars>>

\* generateBill called with a ledger entry, as the bill route does
GenerateBillForEntry ==
    \E i \in DOMAIN guestOrders : generateBill(guestOrders[i])

\* generateBill called with the guest id as the request carries it and the
\* order lines of the ledger entry that id denotes
GenerateBillAnyArg ==
    \E g \in OneGuestIds :
        \E i \in DOMAIN guestOrders :
            /\ LooseEq(guestOrders[i].guest, g)
            /\ generateBill([guest |-> g, orders |-> guestOrders[i].orders])

----------------------------------------------------------------------------
(* Payment: registerPayment                                                *)

RemoveAllEqual(list, id) == SelectSeq(list, LAMBDA x : x # id)

\* if (list.includes(id)) list.splice(list.findIndex(x => id === x), 1)
RemoveOne(list, id) ==
    LET index == FindIndex(list, LAMBDA x : x = id)
    IN  IF index > 0 THEN RemoveAt(list, index) ELSE list

\* billOrder.food.forEach(...) over one ledger list
RECURSIVE RemoveEach(_, _)
RemoveEach(list, ids) ==
    IF ids = <<>> THEN list ELSE RemoveEach(RemoveOne(list, Head(ids)), Tail(ids))

\* removeBillItemsFromDeliveredItems: the body of deliveredOrders.forEach
RemovePaid(order, bill) ==
    LET b == FindIndex(bill.orders, LAMBDA bo : LooseEq(bo.order, order.order))
    IN  IF b > 0
        THEN [order EXCEPT !.drinks = RemoveEach(order.drinks, bill.orders[b].drinks),
                           !.food = RemoveEach(order.food, bill.orders[b].food)]
        ELSE order

removeBillItemsFromDeliveredItems(deliveredOrders, bill) ==
    [i \in DOMAIN deliveredOrders |-> RemovePaid(deliveredOrders[i], bill)]

PaidBill(bill, billId) ==
    [bill |-> billId,
     paidOrders |-> [i \in DOMAIN bill.orders |->
                        [order |-> bill.orders[i].order,
                         paidDrinks |-> bill.orders[i].drinks,
                         paidFood |-> bill.orders[i].food]],
     totalSum |-> bill.totalSum]

KeepLineWithFood(order) == Len(order.food) > 0

\* the filter registerPayment prunes the guest's order lines with
KeepLine(order) == Len(order.food) > 0 \/ Len(order.drinks) > 0

LedgerIndexFirst(bill) == IF guestOrders = <<>> THEN 0 ELSE 1

\* removeBillItemsFromDeliveredItems: the entry of the bill's guest
LedgerIndexOf(bill) ==
    FindIndex(guestOrders, LAMBDA items : LooseEq(items.guest, bill.guest))

BillsAfterPaymentKeepsBill(billIndex) == bills

\* the bills registerPayment leaves in the bill book
BillsAfterPayment(billIndex) == RemoveAt(bills, billIndex)

registerPayment(billId) ==
    LET billIndex == FindIndex(bills, LAMBDA b : b.bill = billId)
        bill == bills[billIndex]
        deliveredItemsIndex == LedgerIndexOf(bill)
    IN  /\ IF billIndex = 0 \/ deliveredItemsIndex = 0
           THEN \* bill.orders of undefined, or .orders of undefined: TypeError
                /\ result' = [op |-> "registerPayment", arg |-> billId,
                              outcome |-> "TypeError", ret |-> <<>>,
                              again |-> FALSE]
                /\ UNCHANGED <<bills, guestOrders, paidIds>>
           ELSE LET deliveredOrders == removeBillItemsFromDeliveredItems(
                                          guestOrders[deliveredItemsIndex].orders, bill)
                IN  /\ guestOrders' =
                          [guestOrders EXCEPT ![deliveredItemsIndex].orders =
                              Filter(deliveredOrders, KeepLine)]
                    /\ bills' = BillsAfterPayment(billIndex)
                    /\ paidIds' = paidIds \cup {billId}
                    /\ result' = [op |-> "registerPayment", arg |-> billId,
                                  outcome |-> "ok", ret |-> PaidBill(bill, billId),
                                  again |-> FALSE]
        /\ UNCHANGED billIdCounter
        /\ UNCHANGED <<menuVars, orderVars>>

RegisterPayment == \E billId \in 1..(MaxBillId + 1) : registerPayment(billId)

----------------------------------------------------------------------------
(* Payment options: getPaymentOption                                       *)

\* the amount below which only cash is offered
CardMinimum == 20

\* amounts as whole units (rounded down) and hundredths
Amounts == [whole : {0 - 1, 0, 19, 20, 21}, frac : {0, 99}]

AtMost(amount, n) == amount.whole < n \/ (amount.whole = n /\ amount.frac = 0)

\* amount < n, for an integer n
Below(amount, n) == amount.whole < n

getPaymentOption(amount) ==
    LET paymentMethods == <<"Cash">>
    IN  IF Below(amount, CardMinimum) THEN paymentMethods
        ELSE paymentMethods \o <<"DebitCard", "CreditCard">>

GetPaymentOption ==
    \E amount \in Amounts :
        /\ result' = [op |-> "getPaymentOption", arg |-> amount,
                      outcome |-> "ok", ret |-> getPaymentOption(amount),
                      again |-> FALSE]
        /\ UNCHANGED <<bills, guestOrders, billIdCounter, paidIds>>
        /\ UNCHANGED <<menuVars, orderVars>>

----------------------------------------------------------------------------
(* Delivery ledger: registerDeliveredItems                                 *)

RECURSIVE LedgerItems(_)
LedgerItems(orders) ==
    IF orders = <<>> THEN 0
    ELSE Len(Head(orders).food) + Len(Head(orders).drinks) + LedgerItems(Tail(orders))

TotalLedgerItems == LedgerItems(FlatMap(guestOrders, LAMBDA e : e.orders))

SameGuestStrict(a, b) == StrictEq(a, b)

\* the comparison registerDeliveredItems finds the guest's entry with
SameGuest(a, b) == LooseEq(a, b)

\* the comparison registerDeliveredItems finds the order line with
SameOrder(a, b) == LooseEq(a, b)

MergeListReplaces(old, new) == new

\* guestOrder.food.concat(food): the delivered ids go to the end of the list
MergeList(old, new) == old \o new

registerDeliveredItems(guest, order, food, drinks) ==
    LET g == FindIndex(guestOrders, LAMBDA items : SameGuest(items.guest, guest))
    IN  /\ TotalLedgerItems + Len(food) + Len(drinks) <= MaxLedgerItems
        /\ IF g > 0
           THEN LET o == FindIndex(guestOrders[g].orders,
                            LAMBDA d : SameOrder(d.order, order))
                IN  IF o > 0
                    THEN guestOrders' =
                           [guestOrders EXCEPT
                              ![g].orders[o].food = MergeList(@, food),
                              ![g].orders[o].drinks = MergeList(@, drinks)]
                    ELSE guestOrders' =
                           [guestOrders EXCEPT
                              ![g].orders = Append(@, [food |-> food,
                                                       drinks |-> drinks,
                                                       order |-> order])]
           ELSE guestOrders' =
                  Append(guestOrders,
                         [guest |-> guest,
                          orders |-> <<[food |-> food, drinks |-> drinks,
                                        order |-> order]>>])
        /\ result' = [op |-> "registerDeliveredItems", arg |-> <<>>,
                      outcome |-> "ok", ret |-> <<>>, again |-> FALSE]
        /\ UNCHANGED <<bills, billIdCounter, paidIds>>
        /\ UNCHANGED <<menuVars, orderVars>>

\* the deliveries to the guest whose ids arrive as numbers and as strings
OneGuestRegistrations ==
    [guest : OneGuestIds, order : OrderIds, food : FoodLists, drinks : DrinkLists]

\* the deliveries to a second guest: the same plate on the same order
OtherGuestRegistrations ==
    {[guest |-> Num(2), order |-> Num(5), food |-> <<101>>, drinks |-> <<>>]}

RegisterDeliveredItemsOf(registrations) ==
    \E r \in registrations :
        registerDeliveredItems(r.guest, r.order, r.food, r.drinks)

RegisterDeliveredItems ==
    RegisterDeliveredItemsOf(OneGuestRegistrations \cup OtherGuestRegistrations)

RegisterDeliveredItemsOneGuest == RegisterDeliveredItemsOf(OneGuestRegistrations)

\* the deliveries to one guest who places two orders
TwoOrderRegistrations ==
    [guest : {Num(1)}, order : {Num(5), Num(6)}, food : FoodLists,
     drinks : DrinkLists]

RegisterDeliveredItemsTwoOrders == RegisterDeliveredItemsOf(TwoOrderRegistrations)

----------------------------------------------------------------------------
(* Table service (order.ts): processOrder                                  *)

\* the food lists of the orders placed
FoodOrders == {<<>>, <<101>>, <<101, 102>>}

\* the body of POST /orderItem: {id: foodId, order: orderNumber}
OrderItem(foodId) == [id |-> foodId, order |-> orderNumber]

\* sendFoodToFoodPreparation up to its next await: the fetch for the next
\* food id is sent, or the loop is over and the function returns
SendNextFood(call) ==
    IF call.todo = <<>>
    THEN [call EXCEPT !.pc = "awaitFood"]
    ELSE [call EXCEPT !.pc = "awaitFetch",
                      !.items = Append(@, OrderItem(Head(call.todo))),
                      !.todo = Tail(@)]

\* processOrder(order) is called and runs up to its first await
ProcessOrder ==
    /\ Len(orderCalls) < MaxCalls
    /\ \E food \in FoodOrders :
          orderCalls' = Append(orderCalls,
              SendNextFood([pc |-> "start", todo |-> food, items |-> <<>>,
                            delivery |-> <<>>, ret |-> <<>>]))
    /\ UNCHANGED orderNumber
    /\ UNCHANGED <<menuVars, billingVars>>

\* the awaited fetch and response.json() of a food item resolve; the loop
\* goes on to the next food id
FoodResponse ==
    /\ \E c \in DOMAIN orderCalls :
          /\ orderCalls[c].pc = "awaitFetch"
          /\ orderCalls' = [orderCalls EXCEPT ![c] = SendNextFood(@)]
    /\ UNCHANGED orderNumber
    /\ UNCHANGED <<menuVars, billingVars>>

\* orderNumber++
NumberAfterDelivery(number) == number + 1

\* processOrder resumes after sendFoodToFoodPreparation and runs
\* sendOrderToDelivery up to the await on its result
SendOrderToDelivery ==
    /\ \E c \in DOMAIN orderCalls :
          /\ orderCalls[c].pc = "awaitFood"
          /\ orderCalls' = [orderCalls EXCEPT ![c].pc = "awaitDelivery",
                                              ![c].delivery = <<orderNumber>>]
    /\ orderNumber' = NumberAfterDelivery(orderNumber)
    /\ UNCHANGED <<menuVars, billingVars>>

\* processOrder resumes and returns { waitingTime, order: orderNumber - 1 }
ProcessOrderReturns ==
    /\ \E c \in DOMAIN orderCalls :
          /\ orderCalls[c].pc = "awaitDelivery"
          /\ orderCalls' = [orderCalls EXCEPT ![c].pc = "done",
                                              ![c].ret = <<orderNumber - 1>>]
    /\ UNCHANGED orderNumber
    /\ UNCHANGED <<menuVars, billingVars>>

NextOrders ==
    \/ ProcessOrder
    \/ FoodResponse
    \/ SendOrderToDelivery
    \/ ProcessOrderReturns

----------------------------------------------------------------------------
(* Specifications                                                          *)

Init ==
    /\ menu = <<>>
    /\ retryCounter = MAX_RETRY_COUNT
    /\ fibonacciSeq = getFibonacciSequence(MAX_RETRY_COUNT)
    /\ pc = "fetch"
    /\ retryIn = 0
    /\ pendingFetches = 1
    /\ available = TRUE
    /\ failures = 0
    /\ shortWaits = 0
    /\ cooldowns = 0
    /\ bills = <<>>
    /\ guestOrders = <<>>
    /\ billIdCounter = 1
    /\ paidIds = {}
    /\ result = [op |-> "none", arg |-> <<>>, outcome |-> "ok", ret |-> <<>>,
                 again |-> FALSE]
    /\ orderNumber = 1
    /\ orderCalls = <<>>

\* the menu client on its own
SpecMenu == Init /\ [][NextMenu]_vars

\* the fetch resolves and the delay timer fires
FairSpecMenu == SpecMenu /\ WF_vars(GetMenuSucceeds \/ GetMenuFails)
                         /\ WF_vars(DelayElapses)

\* the menu client while one guest's plates are delivered, billed and paid
NextMenuAndBills ==
    \/ NextMenu
    \/ RegisterDeliveredItemsOf(OtherGuestRegistrations)
    \/ GenerateBillForEntry
    \/ RegisterPayment

SpecMenuAndBills == Init /\ [][NextMenuAndBills]_vars

\* the table service taking orders
SpecOrders == Init /\ [][NextOrders]_vars

\* the service with generateBill called on ledger entries
Next ==
    \/ GetMenuSucceeds
    \/ RegisterDeliveredItems
    \/ GenerateBillForEntry
    \/ RegisterPayment

Spec == Init /\ [][Next]_vars

\* one guest's traffic, with generateBill given the guest id of the request
NextAnyArg ==
    \/ GetMenuSucceeds
    \/ RegisterDeliveredItemsOneGuest
    \/ GenerateBillAnyArg
    \/ RegisterPayment

SpecAnyArg == Init /\ [][NextAnyArg]_vars

\* one guest with two orders, generateBill called on the ledger entry
NextTwoOrders ==
    \/ GetMenuSucceeds
    \/ RegisterDeliveredItemsTwoOrders
    \/ GenerateBillForEntry
    \/ RegisterPayment

SpecTwoOrders == Init /\ [][NextTwoOrders]_vars

\* one guest's plates, billed and paid, with payment options asked in between
NextPaymentOption ==
    \/ GetMenuSucceeds
    \/ RegisterDeliveredItemsOf(OtherGuestRegistrations)
    \/ GenerateBillForEntry
    \/ RegisterPayment
    \/ GetPaymentOption

SpecPaymentOption == Init /\ [][NextPaymentOption]_vars

----------------------------------------------------------------------------
(* Properties                                                              *)

Count(list, id) == Cardinality({k \in DOMAIN list : list[k] = id})

Ids(list) == {list[k] : k \in DOMAIN list}

\* the ledger line of an entry for an order number, or an empty line
LineFor(orders, order) ==
    LET at == {j \in DOMAIN orders : ToNumber(orders[j].order) = ToNumber(order)}
    IN  IF at = {} THEN [order |-> order, food |-> <<>>, drinks |-> <<>>]
        ELSE orders[CHOOSE j \in at : TRUE]

\* occurrences of id a receipt lists as paid food / drinks for an order number
PaidFood(receipt, order, id) ==
    Cardinality(UNION {
        {<<i, k>> : k \in {k \in DOMAIN receipt.paidOrders[i].paidFood :
                            receipt.paidOrders[i].paidFood[k] = id}} :
        i \in {i \in DOMAIN receipt.paidOrders :
                 ToNumber(receipt.paidOrders[i].order) = ToNumber(order)}})

PaidDrinks(receipt, order, id) ==
    Cardinality(UNION {
        {<<i, k>> : k \in {k \in DOMAIN receipt.paidOrders[i].paidDrinks :
                            receipt.paidOrders[i].paidDrinks[k] = id}} :
        i \in {i \in DOMAIN receipt.paidOrders :
                 ToNumber(receipt.paidOrders[i].order) = ToNumber(order)}})

\* the step is a call (every call writes result; the menu client never does)
Called(op) == result' # result /\ result'.op = op

\* the step is a successful registerPayment
PaymentStep == Called("registerPayment") /\ result'.outcome = "ok"

\* the ledger entry registerPayment settles: that of the paid bill's guest
PaidEntry ==
    LET b == CHOOSE i \in DOMAIN bills : bills[i].bill = result'.arg
    IN  CHOOSE g \in DOMAIN guestOrders :
            ToNumber(guestOrders[g].guest) = ToNumber(bills[b].guest)

\* C1: a successful registerPayment(b) leaves, for every order line of the
\* paid guest, exactly the pre-payment food and drink ids minus one
\* occurrence per id the receipt lists for that order; whatever was delivered
\* beyond the bill (extra duplicates included) stays in the ledger.
MultisetSettlement ==
    [][PaymentStep =>
        LET g == PaidEntry
            receipt == result'.ret
        IN  \A j \in DOMAIN guestOrders[g].orders :
                LET before == guestOrders[g].orders[j]
                    after == LineFor(guestOrders'[g].orders, before.order)
                IN  /\ \A id \in Ids(before.food) :
                        Count(after.food, id) =
                            Count(before.food, id) - PaidFood(receipt, before.order, id)
                    /\ \A id \in Ids(before.drinks) :
                        Count(after.drinks, id) =
                            Count(before.drinks, id) - PaidDrinks(receipt, before.order, id)
                    /\ Ids(after.food) \subseteq Ids(before.food)
                    /\ Ids(after.drinks) \subseteq Ids(before.drinks)]_vars

\* a payment of one 101 after which the second, un-billed 101 is still owed
SettlementWitness ==
    /\ result.op = "registerPayment" /\ result.outcome = "ok"
    /\ Len(guestOrders) = 1
    /\ Len(result.ret.paidOrders) = 1
    /\ result.ret.paidOrders[1].paidFood = <<101>>
    /\ Len(guestOrders[1].orders) = 1
    /\ guestOrders[1].orders[1].food = <<101>>

\* C2: the k-th failed fetch since startup (k = 1..5) waits
\* fibonacciSeq[k] * 1000 ms, the sequence being 1,1,2,3,5, and no 60,000 ms
\* wait starts before five short waits were taken.
ShortRetryBackoff ==
    /\ fibonacciSeq = <<1, 1, 2, 3, 5>>
    /\ (pc \in {"delayShort", "delayLong"} /\ failures <= MAX_RETRY_COUNT)
          => (pc = "delayShort" /\ retryIn = fibonacciSeq[failures] * 1000)
    /\ (pc = "delayLong" \/ retryIn = 60000) => failures > MAX_RETRY_COUNT

\* the fifth failure in a row waits 5000 ms
ShortRetryWitness ==
    pc = "delayShort" /\ failures = MAX_RETRY_COUNT /\ retryIn = 5000

\* C3: after every cooldown the counter is back at the start of the
\* schedule: the first failure after it waits fibonacciSeq[1] * 1000 ms and
\* every cooldown is preceded by exactly 5 short waits of its own cycle.
CooldownRestartsSchedule ==
    /\ (pc = "fetch" /\ cooldowns > 0 /\ shortWaits = 0)
          => retryCounter = MAX_RETRY_COUNT
    /\ (pc = "delayShort" /\ cooldowns > 0 /\ shortWaits = 1)
          => retryIn = fibonacciSeq[1] * 1000
    /\ pc = "delayLong" => shortWaits = MAX_RETRY_COUNT

\* C4: the retry loop never gives up: every wait is followed by another
\* fetch attempt, the loop has no failed end state, and once the pricing
\* source stays available the menu gets loaded.
MenuRetryNeverGivesUp ==
    /\ [](pc \in {"fetch", "delayShort", "delayLong", "loaded"})
    /\ [](pc \in {"delayShort", "delayLong"} => <>(pc = "fetch"))
    /\ (<>[]available => <>(pc = "loaded" /\ menu # <<>>))

\* the menu arrives after an outage that lasted into a second cooldown
NeverGivesUpWitness ==
    pc = "loaded" /\ menu = <<TheMenu>> /\ cooldowns = 2

\* C5: registerPayment of a bill id that is not open fails with BillNotFound
\* and changes neither the ledger nor the bill book.
ClosedBillFailsBillNotFound ==
    [][(Called("registerPayment")
            /\ ~\E i \in DOMAIN bills : bills[i].bill = result'.arg)
        => (result'.outcome = "BillNotFound"
            /\ guestOrders' = guestOrders /\ bills' = bills)]_vars

\* C6: generateBill called again with the same ledger entry, nothing
\* delivered or paid in between, returns the same bill id, totalSum and
\* flattened lists and leaves the guest's single open bill as it was.
IdempotentRegeneration ==
    [][(Called("generateBill") /\ result'.again) =>
        /\ result'.outcome = "ok"
        /\ result'.ret = result.ret
        /\ bills' = bills
        /\ Cardinality({i \in DOMAIN bills' :
               ToNumber(bills'[i].guest) = ToNumber(result'.arg.guest)}) = 1]_vars

\* a bill with items was generated twice in a row
RegenerationWitness ==
    /\ result.op = "generateBill" /\ result.again /\ result.outcome = "ok"
    /\ result.ret.orderedFood # <<>>
    /\ result.ret.orderedDrinks # <<>>

\* the price the loaded menu lists for an id of one category
Price(items, id) ==
    LET hits == {k \in DOMAIN items : items[k].id = id}
    IN  items[CHOOSE k \in hits : \A l \in hits : k <= l].price

RECURSIVE SumOver(_, _, _)
SumOver(items, list, ids) ==
    IF ids = {} THEN 0
    ELSE LET id == CHOOSE x \in ids : TRUE
         IN  Count(list, id) * Price(items, id) + SumOver(items, list, ids \ {id})

\* C7: every open bill's totalSum is the sum of the cached menu prices of
\* all food and drink ids of its order lines, counted with multiplicity.
Conservation ==
    \A i \in DOMAIN bills :
        LET food == FlatMap(bills[i].orders, LAMBDA o : o.food)
            drinks == FlatMap(bills[i].orders, LAMBDA o : o.drinks)
        IN  IF food = <<>> /\ drinks = <<>>
            THEN bills[i].totalSum = 0
            ELSE /\ menu # <<>>
                 /\ bills[i].totalSum = SumOver(menu[1].food, food, Ids(food))
                                      + SumOver(menu[1].drinks, drinks, Ids(drinks))

\* a regenerated bill over two 101 costs 10, not 5 + 10
ConservationWitness ==
    /\ result.op = "generateBill" /\ result.outcome = "ok"
    /\ \E i \in DOMAIN bills :
          /\ bills[i].bill = result.ret.bill
          /\ FlatMap(bills[i].orders, LAMBDA o : o.food) = <<101, 101>>
          /\ bills[i].totalSum = 10

\* C8: the ledger holds at most one entry per guest number and every entry
\* at most one order line per order number, however the ids arrived.
LedgerUniqueness ==
    /\ \A i, j \in DOMAIN guestOrders :
          ToNumber(guestOrders[i].guest) = ToNumber(guestOrders[j].guest) => i = j
    /\ \A g \in DOMAIN guestOrders :
          \A i, j \in DOMAIN guestOrders[g].orders :
              ToNumber(guestOrders[g].orders[i].order)
                  = ToNumber(guestOrders[g].orders[j].order) => i = j

\* deliveries merged into the line of guest "1", order 5, after a payment
LedgerUniquenessWitness ==
    /\ result.op = "registerDeliveredItems"
    /\ paidIds # {}
    /\ \E g \in DOMAIN guestOrders :
          /\ guestOrders[g].guest = Str(<<1>>)
          /\ Len(guestOrders[g].orders) = 1
          /\ guestOrders[g].orders[1].order = Num(5)
          /\ Len(guestOrders[g].orders[1].food) = 2

\* C9: the bill book holds at most one bill per guest number, however the
\* guest id arrived.
AtMostOneOpenBillPerGuest ==
    \A i, j \in DOMAIN bills :
        ToNumber(bills[i].guest) = ToNumber(bills[j].guest) => i = j

\* C10: bill ids are unique and never reused: open bills have pairwise
\* different ids, none of them a paid id, and every id handed out so far is
\* below the id the next new bill gets.
BillIdsNeverReused ==
    /\ \A i, j \in DOMAIN bills : bills[i].bill = bills[j].bill => i = j
    /\ \A i \in DOMAIN bills : bills[i].bill \notin paidIds
    /\ \A i \in DOMAIN bills : bills[i].bill < billIdCounter
    /\ \A id \in paidIds : id < billIdCounter

\* the only guest paid bill 1 and has a new bill, bill 2
BillIdsWitness ==
    /\ Len(guestOrders) = 1
    /\ paidIds = {1}
    /\ Len(bills) = 1
    /\ bills[1].bill = 2

\* the positions of the paid guest's lines that survive, in ledger order
KeptPositions(before, after) ==
    [a \in DOMAIN after |->
        CHOOSE j \in DOMAIN before : StrictEq(before[j].order, after[a].order)]

\* C11: right after a successful registerPayment the paid guest's entry has
\* no order line with both lists empty, and every line that still holds a
\* food or drink id is kept, in its original relative order.
PostPaymentPruning ==
    [][PaymentStep =>
        LET g == PaidEntry
            receipt == result'.ret
            before == guestOrders[g].orders
            after == guestOrders'[g].orders
        IN  /\ \A a \in DOMAIN after :
                  Len(after[a].food) > 0 \/ Len(after[a].drinks) > 0
            /\ \A a \in DOMAIN after :
                  \E j \in DOMAIN before : StrictEq(before[j].order, after[a].order)
            /\ \A a, b \in DOMAIN after :
                  a < b => KeptPositions(before, after)[a]
                               < KeptPositions(before, after)[b]
            /\ \A j \in DOMAIN before :
                  (\/ \E id \in Ids(before[j].food) :
                         Count(before[j].food, id)
                             > PaidFood(receipt, before[j].order, id)
                   \/ \E id \in Ids(before[j].drinks) :
                         Count(before[j].drinks, id)
                             > PaidDrinks(receipt, before[j].order, id))
                  => \E a \in DOMAIN after :
                         StrictEq(after[a].order, before[j].order)]_vars

\* order 5 was paid in full and pruned, order 6, delivered later, is kept
PruningWitness ==
    /\ result.op = "registerPayment" /\ result.outcome = "ok"
    /\ Len(result.ret.paidOrders) = 1
    /\ result.ret.paidOrders[1].order = Num(5)
    /\ result.ret.paidOrders[1].paidFood = <<101>>
    /\ Len(guestOrders) = 1
    /\ Len(guestOrders[1].orders) = 1
    /\ guestOrders[1].orders[1].order = Num(6)
    /\ guestOrders[1].orders[1].drinks = <<201>>

\* the open bill a successful generateBill call has just stored
StoredBill == CHOOSE b \in DOMAIN bills' : bills'[b].bill = result'.ret.bill

\* C12: right after a successful generateBill on a guest's ledger entry the
\* stored bill's order lines are exactly that entry's order lines, also when
\* an open bill with other lines existed before the call.
BillMirrorsLedger ==
    [][Called("generateBill") /\ result'.outcome = "ok" =>
        /\ \E b \in DOMAIN bills' : bills'[b].bill = result'.ret.bill
        /\ \E i \in DOMAIN guestOrders' :
              /\ StrictEq(guestOrders'[i].guest, bills'[StoredBill].guest)
              /\ bills'[StoredBill].orders = guestOrders'[i].orders]_vars

MirrorWitness ==
    /\ result.op = "generateBill" /\ result.outcome = "ok"
    /\ result.rebuilt
    /\ Len(bills) = 1
    /\ Len(bills[1].orders) = 2
    /\ bills[1].orders[1].food = <<101, 101>>
    /\ bills[1].orders = guestOrders[1].orders

\* the ledger positions of the guest and of the order line a delivery names
EntriesOf(ledger, guest) ==
    {i \in DOMAIN ledger : ToNumber(ledger[i].guest) = ToNumber(guest)}

LinesOf(orders, order) ==
    {j \in DOMAIN orders : ToNumber(orders[j].order) = ToNumber(order)}

DeliveredLine(r) == [food |-> r.food, drinks |-> r.drinks, order |-> r.order]

\* what the ledger is after the delivery r
LedgerAfterDelivery(r) ==
    IF EntriesOf(guestOrders, r.guest) = {}
    THEN /\ Len(guestOrders') = Len(guestOrders) + 1
         /\ SubSeq(guestOrders', 1, Len(guestOrders)) = guestOrders
         /\ guestOrders'[Len(guestOrders')] =
               [guest |-> r.guest, orders |-> <<DeliveredLine(r)>>]
    ELSE \E i \in EntriesOf(guestOrders, r.guest) :
           /\ Len(guestOrders') = Len(guestOrders)
           /\ \A k \in DOMAIN guestOrders : k # i => guestOrders'[k] = guestOrders[k]
           /\ guestOrders'[i].guest = guestOrders[i].guest
           /\ LET before == guestOrders[i].orders  after == guestOrders'[i].orders
              IN  IF LinesOf(before, r.order) = {}
                  THEN after = before \o <<DeliveredLine(r)>>
                  ELSE \E j \in LinesOf(before, r.order) :
                         /\ Len(after) = Len(before)
                         /\ \A k \in DOMAIN before : k # j => after[k] = before[k]
                         /\ after[j].order = before[j].order
                         /\ after[j].food = before[j].food \o r.food
                         /\ after[j].drinks = before[j].drinks \o r.drinks

\* C13: a delivery for a guest and order already in the ledger appends its food
\* and drinks to the end of that line's lists, keeping duplicates; for a known
\* guest and a new order id it appends a line; for an unknown guest it creates
\* an entry with that one line.
RedeliveryAppends ==
    [][\A r \in TwoOrderRegistrations :
          registerDeliveredItems(r.guest, r.order, r.food, r.drinks)
              => LedgerAfterDelivery(r)]_vars

RedeliveryWitness ==
    /\ result.op = "registerDeliveredItems"
    /\ Len(guestOrders) = 1
    /\ Len(guestOrders[1].orders) = 2
    /\ guestOrders[1].orders[1].order = Num(5)
    /\ guestOrders[1].orders[1].food = <<101, 101>>
    /\ guestOrders[1].orders[2].order = Num(6)

\* C14: generateBill ends either with a bill or in one of the explicit failure
\* outcomes UnknownMenuItem (an id with no menu entry) and MenuNotReady (menu
\* not loaded yet), never in a crash on a missing value.
GenerateBillFailsExplicitly ==
    result.op = "generateBill" =>
        result.outcome \in {"ok", "UnknownMenuItem", "MenuNotReady"}

\* an amount in hundredths
Hundredths(amount) == amount.whole * 100 + amount.frac

\* C15: getPaymentOption(amount) returns [Cash] when amount < 20 and [Cash,
\* DebitCard, CreditCard] in that order when amount >= 20, and leaves the
\* ledger, the bills and the bill id counter as they were.
PaymentOptionBoundary ==
    [][Called("getPaymentOption") =>
        /\ Hundredths(result'.arg) < 2000 => result'.ret = <<"Cash">>
        /\ Hundredths(result'.arg) >= 2000
              => result'.ret = <<"Cash", "DebitCard", "CreditCard">>
        /\ guestOrders' = guestOrders
        /\ bills' = bills
        /\ billIdCounter' = billIdCounter
        /\ menu' = menu /\ retryCounter' = retryCounter]_vars

PaymentOptionWitness ==
    /\ result.op = "getPaymentOption"
    /\ result.arg = [whole |-> 19, frac |-> 99]
    /\ result.ret = <<"Cash">>
    /\ bills # <<>>

\* C16: the menu is loaded once and then frozen: at most one fetch is in
\* flight at any time, and once a fetch has succeeded the cached menu never
\* changes and no further fetch or retry wait is started.
MenuLoadedOnceAndFrozen ==
    /\ [](pendingFetches \in {0, 1})
    /\ [](menu # <<>> => pendingFetches = 0 /\ retryIn = 0 /\ menu = <<TheMenu>>)
    /\ [][menu # <<>> =>
            /\ menu' = menu
            /\ pendingFetches' = pendingFetches
            /\ pc' = pc /\ retryIn' = retryIn
            /\ retryCounter' = retryCounter]_vars

FrozenMenuWitness ==
    /\ menu = <<TheMenu>>
    /\ failures > MAX_RETRY_COUNT
    /\ result.op = "generateBill" /\ result.outcome = "ok"

\* every id of the list small occurs in the list big at least as often
MultisetWithin(small, big) ==
    \A id \in Ids(small) : Count(small, id) <= Count(big, id)

\* C17: with generateBill always called on the guest's ledger entry, every open
\* bill's guest has a ledger entry, and every order line of the bill has a
\* ledger line with the same order id whose food and drink multisets contain
\* the bill line's.
OpenBillWithinLedger ==
    \A b \in DOMAIN bills :
        \E i \in DOMAIN guestOrders :
            /\ LooseEq(guestOrders[i].guest, bills[b].guest)
            /\ \A k \in DOMAIN bills[b].orders :
                  \E j \in DOMAIN guestOrders[i].orders :
                      /\ StrictEq(guestOrders[i].orders[j].order, bills[b].orders[k].order)
                      /\ MultisetWithin(bills[b].orders[k].food,
                                        guestOrders[i].orders[j].food)
                      /\ MultisetWithin(bills[b].orders[k].drinks,
                                        guestOrders[i].orders[j].drinks)

WithinLedgerWitness ==
    /\ result.op = "registerDeliveredItems"
    /\ Len(bills) = 1 /\ Len(guestOrders) = 1
    /\ Len(bills[1].orders) = 1
    /\ bills[1].orders[1].food = <<101>>
    /\ Len(guestOrders[1].orders) = 1
    /\ guestOrders[1].orders[1].food = <<101, 101>>
    /\ paidIds # {}

\* the step is a registerDeliveredItems call that changed something
DeliveryStep ==
    /\ result'.op = "registerDeliveredItems"
    /\ result' # result \/ guestOrders' # guestOrders

\* the position of the bill a successful registerPayment step closes
PaidBillIndex == CHOOSE b \in DOMAIN bills : bills[b].bill = result'.arg

\* C18: registerDeliveredItems changes no open bill; a successful
\* registerPayment for a bill of guest g changes no ledger entry and no open
\* bill of another guest; the receipt lists the bill's lines as they were, not
\* as the ledger subtraction of the same call leaves the ledger lines.
BillIsSnapshot ==
    [][/\ DeliveryStep => bills' = bills /\ billIdCounter' = billIdCounter
       /\ PaymentStep =>
            /\ Len(guestOrders') = Len(guestOrders)
            /\ \A i \in DOMAIN guestOrders :
                  i # PaidEntry => guestOrders'[i] = guestOrders[i]
            /\ guestOrders'[PaidEntry].guest = guestOrders[PaidEntry].guest
            /\ bills' = [k \in 1..(Len(bills) - 1) |->
                            IF k < PaidBillIndex THEN bills[k] ELSE bills[k + 1]]
            /\ result'.ret.totalSum = bills[PaidBillIndex].totalSum
            /\ Len(result'.ret.paidOrders) = Len(bills[PaidBillIndex].orders)
            /\ \A k \in DOMAIN bills[PaidBillIndex].orders :
                  /\ result'.ret.paidOrders[k].order = bills[PaidBillIndex].orders[k].order
                  /\ result'.ret.paidOrders[k].paidFood = bills[PaidBillIndex].orders[k].food
                  /\ result'.ret.paidOrders[k].paidDrinks = bills[PaidBillIndex].orders[k].drinks
      ]_vars

SnapshotWitness ==
    /\ result.op = "registerPayment" /\ result.outcome = "ok"
    /\ Len(result.ret.paidOrders) = 1
    /\ result.ret.paidOrders[1].paidFood = <<101>>
    /\ Len(guestOrders) = 2
    /\ guestOrders[1].guest = Num(1)
    /\ Len(guestOrders[1].orders) = 1
    /\ guestOrders[1].orders[1].food = <<101>>
    /\ guestOrders[2].orders = <<>>
    /\ Len(bills) = 1
    /\ bills[1].guest = Num(1)

\* C19: a generateBill call that fails leaves the open bills, the ledger and
\* the bill id counter exactly as they were: nothing is stored and no bill id
\* is consumed.
FailingGenerateBillHasNoEffect ==
    [][Called("generateBill") /\ result'.outcome # "ok" =>
        /\ bills' = bills
        /\ guestOrders' = guestOrders
        /\ billIdCounter' = billIdCounter]_vars

\* the order numbers a processOrder call has used so far: on its food
\* preparation messages, on its delivery message and in its return value
NumbersOf(call) ==
    {call.items[k].order : k \in DOMAIN call.items}
        \cup {call.delivery[k] : k \in DOMAIN call.delivery}
        \cup {call.ret[k] : k \in DOMAIN call.ret}

\* C20: under any interleaving of processOrder calls at their await points, a
\* call uses one and the same order number on all its food preparation
\* messages, on its delivery message and in its return value, and no two calls
\* use the same order number.
OrderNumbersConsistent ==
    /\ \A c \in DOMAIN orderCalls : Cardinality(NumbersOf(orderCalls[c])) <= 1
    /\ \A c, d \in DOMAIN orderCalls :
          c # d => NumbersOf(orderCalls[c]) \cap NumbersOf(orderCalls[d]) = {}

====
